---- MODULE Spec2Model ----
(***************************************************************************)
(* Model of src/lib/index.mjs (mlly): the Location Codec, the Resolver     *)
(* with its extension/index fallback search, the sync/async call shapes,   *)
(* the Import Rewriter and the Evaluator.                                  *)
(*                                                                         *)
(* Text is modelled by TLA+ strings; the JavaScript string and RegExp      *)
(* primitives the code relies on are operators over them.                  *)
(***************************************************************************)
EXTENDS Integers, Sequences, FiniteSets, TLC

VARIABLES cs, rs, im, ev

vars == <<cs, rs, im, ev>>

\* Value of a component that takes no part in the specification at hand.
Idle == [pc |-> "idle"]

-----------------------------------------------------------------------------
(* JavaScript string primitives *)

CharAt(s, i) == SubSeq(s, i, i)

\* String.prototype.startsWith
StartsWith(s, p) == Len(s) >= Len(p) /\ SubSeq(s, 1, Len(p)) = p

\* String.prototype.endsWith
EndsWith(s, p) == Len(s) >= Len(p) /\ SubSeq(s, Len(s) - Len(p) + 1, Len(s)) = p

\* s from position i to its end
From(s, i) == SubSeq(s, i, Len(s))

\* Whether literal p occurs at position i of s
OccursAt(s, p, i) == i + Len(p) - 1 <= Len(s) /\ SubSeq(s, i, i + Len(p) - 1) = p

\* Whether literal p occurs anywhere in s
Includes(s, p) == \E i \in 1..(Len(s) - Len(p) + 1) : OccursAt(s, p, i)

\* The least member of the non-empty set S of integers
Least(S) == CHOOSE x \in S : \A y \in S : x <= y

\* s from position i on with every occurrence of the non-empty literal p
\* replaced by r, scanning left to right as a global RegExp of a literal
\* does; hits are the positions from i on where p occurs
RECURSIVE ReplaceAllFrom(_, _, _, _), ReplaceAllAt(_, _, _, _, _)
ReplaceAllFrom(s, p, r, i) ==
  ReplaceAllAt(s, p, r, i, {j \in i..Len(s) : OccursAt(s, p, j)})

ReplaceAllAt(s, p, r, i, hits) ==
  IF hits = {} THEN From(s, i)
  ELSE SubSeq(s, i, Least(hits) - 1) \o r \o ReplaceAllFrom(s, p, r, Least(hits) + Len(p))

ReplaceAll(s, p, r) == ReplaceAllFrom(s, p, r, 1)

-----------------------------------------------------------------------------
(* Location Codec *)

\* The host's builtin module names (module.builtinModules); recent hosts also
\* list scheme-only builtins such as node:test.
BUILTIN_MODULES == {"fs", "fs/promises", "node:test"}

\* str.replace(/\\/g, '/')
normalizeSlash(str) == ReplaceAll(str, "\\", "/")

\* The characters url.pathToFileURL escapes, with their escapes
ESCAPES == <<<<"%", "%25">>, <<"\\", "%5C">>, <<" ", "%20">>>>

RECURSIVE PercentEncode(_)
PercentEncode(p) ==
  IF p = "" THEN ""
  ELSE LET c == CharAt(p, 1)
           hit == {k \in 1..Len(ESCAPES) : ESCAPES[k][1] = c}
       IN (IF hit = {} THEN c ELSE ESCAPES[CHOOSE k \in hit : TRUE][2])
            \o PercentEncode(From(p, 2))

RECURSIVE PercentDecode(_)
PercentDecode(u) ==
  IF u = "" THEN ""
  ELSE LET hit == {k \in 1..Len(ESCAPES) : StartsWith(u, ESCAPES[k][2])}
       IN IF hit = {} THEN CharAt(u, 1) \o PercentDecode(From(u, 2))
          ELSE ESCAPES[CHOOSE k \in hit : TRUE][1] \o PercentDecode(From(u, 4))

\* url.pathToFileURL(path).toString() on a POSIX host, for an absolute path
pathToFileURL(path) == "file://" \o PercentEncode(path)

\* url.fileURLToPath(url) on a POSIX host, for a file: URL with no host part
_fileURLToPath(url) == PercentDecode(From(url, Len("file://") + 1))

fileURLToPath(id) ==
  IF ~StartsWith(id, "file://") THEN normalizeSlash(id)
  ELSE normalizeSlash(_fileURLToPath(id))

\* /(node|data|http|https):/.test(id): an unanchored search
RESOLVE_PROTOCOLS == {"node:", "data:", "http:", "https:"}

HasProtocolToken(id, protocols) == \E p \in protocols : Includes(id, p)

\* normalizeid without its branch for builtin module names
normalizeid_nobuiltin(id) ==
  IF HasProtocolToken(id, RESOLVE_PROTOCOLS \cup {"file:"}) THEN id
  ELSE "file://" \o normalizeSlash(id)

normalizeid(id) ==
  IF HasProtocolToken(id, RESOLVE_PROTOCOLS \cup {"file:"}) THEN id
  ELSE IF id \in BUILTIN_MODULES THEN "node:" \o id
  ELSE "file://" \o normalizeSlash(id)

-----------------------------------------------------------------------------
(* Location Codec driven on its own: a location is passed through the two  *)
(* conversions, each result being fed to the next call.                    *)

MaxCodecSteps == 3

CodecInputs ==
  BUILTIN_MODULES \cup
  {"node:fs", "./a", "/proj/a.mjs", "/my proj/a.mjs", "C:\\proj\\a.mjs",
   "file:///proj/a.mjs", "file:///my%20proj/a.mjs", "https://e.io/a.mjs",
   "data:text/javascript,1"}

CodecInit ==
  /\ cs \in {[pc |-> "codec", id |-> i, cur |-> i, calls |-> <<>>] : i \in CodecInputs}
  /\ rs = Idle /\ im = Idle /\ ev = Idle

CallNormalizeid ==
  /\ cs.pc = "codec" /\ Len(cs.calls) < MaxCodecSteps
  /\ cs' = [cs EXCEPT !.cur = normalizeid(cs.cur),
                      !.calls = Append(cs.calls, "normalizeid")]
  /\ UNCHANGED <<rs, im, ev>>

CallFileURLToPath ==
  /\ cs.pc = "codec" /\ Len(cs.calls) < MaxCodecSteps
  /\ cs' = [cs EXCEPT !.cur = fileURLToPath(cs.cur),
                      !.calls = Append(cs.calls, "fileURLToPath")]
  /\ UNCHANGED <<rs, im, ev>>

CodecNext == CallNormalizeid \/ CallFileURLToPath

SpecCodec == CodecInit /\ [][CodecNext]_vars

-----------------------------------------------------------------------------
(* Resolver *)

DEFAULT_EXTENSIONS == <<".mjs", ".cjs", ".js", ".json">>

NOT_FOUND_ERRORS == {"ERR_MODULE_NOT_FOUND", "ERR_UNSUPPORTED_DIR_IMPORT", "MODULE_NOT_FOUND"}

\* pathToFileURL(process.cwd())
DEFAULT_URL == pathToFileURL("/cwd")

\* The two prefixes of the fallback search, in loop order
PREFIXES == <<"", "/index">>

Return(v) == [kind |-> "return", value |-> v]

Throw(e) == [kind |-> "throw", err |-> e]

\* The error the host raises for outcome code c on specifier name
HostError(c, name) == [name |-> "Error", code |-> c, message |-> c \o ": " \o name]

\* Position after the last "/" of s
RECURSIVE LastSlash(_, _)
LastSlash(s, i) == IF i = 0 \/ CharAt(s, i) = "/" THEN i ELSE LastSlash(s, i - 1)

\* Where the host places a name it resolves against base url: next to the
\* base for a relative name, under node_modules for a bare one
HostLocation(name, url) ==
  LET dir == SubSeq(url, 1, LastSlash(url, Len(url)))
  IN IF StartsWith(name, "./") THEN dir \o From(name, 3)
     ELSE dir \o "node_modules/" \o name

\* moduleResolve of import-meta-resolve, a black box: h gives, per specifier,
\* "ok" or the code of the error it raises; a name h does not list is missing
moduleResolve(h, name, url) ==
  LET c == IF name \in DOMAIN h THEN h[name] ELSE "ERR_MODULE_NOT_FOUND"
  IN IF c = "ok" THEN Return(HostLocation(name, url)) ELSE Throw(HostError(c, name))

_tryModuleResolve_swallow(h, name, url) ==
  LET r == moduleResolve(h, name, url)
  IN IF r.kind = "throw" THEN [kind |-> "null"] ELSE r

_tryModuleResolve(h, name, url) ==
  LET r == moduleResolve(h, name, url)
  IN IF r.kind = "throw"
     THEN IF r.err.code \notin NOT_FOUND_ERRORS THEN r ELSE [kind |-> "null"]
     ELSE r

\* fs.realpathSync: with lk the resolved file is reached through a symlinked
\* directory whose target is /my store
realpathSync(lk, path) == IF lk THEN "/my store" \o path ELSE path

NotFoundError_candidate(id, url) ==
  [name |-> "Error", code |-> "ERR_MODULE_NOT_FOUND",
   message |-> "Cannot find module " \o id \o PREFIXES[2] \o " imported from " \o url]

NotFoundError(id, url) ==
  [name |-> "Error", code |-> "ERR_MODULE_NOT_FOUND",
   message |-> "Cannot find module " \o id \o " imported from " \o url]

\* The nested loops of the fallback search from their k-th iteration on,
\* k counting the (prefix, extension) pairs in loop order; log is the list
\* of specifiers handed to the host so far. Yields <<outcome, log>>.
RECURSIVE FallbackSearch(_, _, _, _, _, _)
FallbackSearch(h, id, url, exts, k, log) ==
  IF k > Len(PREFIXES) * Len(exts) THEN <<[kind |-> "null"], log>>
  ELSE LET prefix == PREFIXES[((k - 1) \div Len(exts)) + 1]
           ext == exts[((k - 1) % Len(exts)) + 1]
           name == id \o prefix \o ext
           r == _tryModuleResolve(h, name, url)
       IN IF r.kind = "null"
          THEN FallbackSearch(h, id, url, exts, k + 1, Append(log, name))
          ELSE <<r, Append(log, name)>>

\* Lines 63-74: the simple resolve, whose outcome is first, then the
\* fallback search if it found nothing
Search(h, id, url, exts, first) ==
  IF first.kind = "null" THEN FallbackSearch(h, id, url, exts, 1, <<id>>)
  ELSE <<first, <<id>>>>

\* Lines 76-85: what _resolve makes of the search's <<outcome, log>>
Conclude(lk, id, url, found) ==
  IF found[1].kind = "throw" THEN found
  ELSE IF found[1].kind = "null" THEN <<Throw(NotFoundError(id, url)), found[2]>>
  ELSE <<Return(pathToFileURL(realpathSync(lk, fileURLToPath(found[1].value)))),
         found[2]>>

\* Lines 59-85, url and exts being the defaults or the options
ResolveAgainst(h, lk, id, url, exts) ==
  Conclude(lk, id, url, Search(h, id, url, exts, _tryModuleResolve(h, id, url)))

\* _resolve(id, opts) against host h; yields <<outcome, log>>
_resolve(h, lk, id, opts) ==
  IF HasProtocolToken(id, RESOLVE_PROTOCOLS) THEN <<Return(id), <<>>>>
  ELSE IF id \in BUILTIN_MODULES THEN <<Return("node:" \o id), <<>>>>
  ELSE ResolveAgainst(h, lk, id,
         IF "url" \in DOMAIN opts THEN normalizeid(opts.url) ELSE DEFAULT_URL,
         IF "extensions" \in DOMAIN opts THEN opts.extensions ELSE DEFAULT_EXTENSIONS)

resolveSync(h, lk, id, opts) == _resolve(h, lk, id, opts)[1]

\* fileURLToPath applied to what resolveSync returned
PathOf(r) == IF r.kind = "throw" THEN r ELSE Return(fileURLToPath(r.value))

resolvePathSync(h, lk, id, opts) == PathOf(resolveSync(h, lk, id, opts))

\* String(err) of an Error
ErrorToString(e) == e.name \o ": " \o e.message

_perr_nocode(e) ==
  [kind |-> "rejected",
   err |-> [name |-> "Error", code |-> "undefined", message |-> ErrorToString(e)]]

_perr(e) ==
  [kind |-> "rejected",
   err |-> [name |-> "Error", code |-> e.code, message |-> ErrorToString(e)]]

\* _pcall(fn, ...args), given the outcome r of the synchronous call fn(...args);
\* a returned string is no thenable, so Promise.resolve fulfils with it
_pcall(r) ==
  IF r.kind = "throw" THEN _perr(r.err) ELSE [kind |-> "fulfilled", value |-> r.value]

resolve(h, lk, id, opts) == _pcall(resolveSync(h, lk, id, opts))

resolvePath(h, lk, id, opts) == _pcall(resolvePathSync(h, lk, id, opts))

-----------------------------------------------------------------------------
(* Resolver driven through its four public call shapes. The inputs of one  *)
(* call (specifier, options, the host's answers, whether the target is     *)
(* reached through a symlink) are fixed at the start.                      *)

\* How many of the host's answers differ from a plain ERR_MODULE_NOT_FOUND
MaxSpecial == 2

Specifiers == {"./x", "pkg", "fs", "node:fs", "./data:x"}

ResolveOptions ==
  {<<>>,
   [url |-> "file:///lib/main.mjs", extensions |-> <<>>],
   [url |-> "/proj/index.mjs", extensions |-> <<".json", ".js">>]}

\* The specifiers the host may be asked about when id is resolved
HostNames(id) ==
  {id} \cup {id \o PREFIXES[p] \o DEFAULT_EXTENSIONS[e] :
               p \in 1..Len(PREFIXES), e \in 1..Len(DEFAULT_EXTENSIONS)}

HostAnswers == {"ok", "ERR_UNSUPPORTED_DIR_IMPORT", "MODULE_NOT_FOUND", "EACCES"}

Hosts(id) ==
  UNION {
    {[n \in HostNames(id) |-> IF n \in S THEN f[n] ELSE "ERR_MODULE_NOT_FOUND"] :
       f \in [S -> HostAnswers]} :
    S \in {T \in SUBSET HostNames(id) : Cardinality(T) <= MaxSpecial}}

\* Whether the resolved file is reached through a symlink, per options
Symlinked == {<<<<>>, FALSE>>} \cup {<<o, TRUE>> : o \in ResolveOptions \ {<<>>}}
                              \cup {<<o, FALSE>> : o \in {[url |-> "/proj/index.mjs", extensions |-> <<".json", ".js">>]}}

ResolveInit ==
  /\ \E i \in Specifiers, e \in Symlinked :
       \E h \in Hosts(i) :
         rs = [pc |-> "ready", id |-> i, opts |-> e[1], host |-> h, linked |-> e[2]]
  /\ cs = Idle /\ im = Idle /\ ev = Idle

Finish(op, outcome, log) ==
  rs' = [pc |-> "done", id |-> rs.id, opts |-> rs.opts, host |-> rs.host,
         linked |-> rs.linked, op |-> op, result |-> outcome, queried |-> log]

CallResolveSync ==
  /\ rs.pc = "ready"
  /\ Finish("resolveSync", resolveSync(rs.host, rs.linked, rs.id, rs.opts),
            _resolve(rs.host, rs.linked, rs.id, rs.opts)[2])
  /\ UNCHANGED <<cs, im, ev>>

CallResolvePathSync ==
  /\ rs.pc = "ready"
  /\ Finish("resolvePathSync", resolvePathSync(rs.host, rs.linked, rs.id, rs.opts),
            _resolve(rs.host, rs.linked, rs.id, rs.opts)[2])
  /\ UNCHANGED <<cs, im, ev>>

CallResolve ==
  /\ rs.pc = "ready"
  /\ Finish("resolve", resolve(rs.host, rs.linked, rs.id, rs.opts),
            _resolve(rs.host, rs.linked, rs.id, rs.opts)[2])
  /\ UNCHANGED <<cs, im, ev>>

CallResolvePath ==
  /\ rs.pc = "ready"
  /\ Finish("resolvePath", resolvePath(rs.host, rs.linked, rs.id, rs.opts),
            _resolve(rs.host, rs.linked, rs.id, rs.opts)[2])
  /\ UNCHANGED <<cs, im, ev>>

ResolveNext == CallResolveSync \/ CallResolvePathSync \/ CallResolve \/ CallResolvePath

SpecResolve == ResolveInit /\ [][ResolveNext]_vars

-----------------------------------------------------------------------------
(* Encoding: Buffer.from(code).toString('base64') and the data: URL *)

\* The printable ASCII characters in code order, from the space (32) to
\* the underscore (95) and from "a" (97) on
ASCII_LOW == " !\"#$%&'()*+,-./0123456789:;<=>?@ABCDEFGHIJKLMNOPQRSTUVWXYZ[\\]^_"

ASCII_HIGH == "abcdefghijklmnopqrstuvwxyz{|}~"

\* The UTF-8 byte of a character (the sources of the model are ASCII)
CharCode(c) ==
  IF c = "\n" THEN 10
  ELSE IF \E k \in 1..Len(ASCII_LOW) : CharAt(ASCII_LOW, k) = c
       THEN 31 + CHOOSE k \in 1..Len(ASCII_LOW) : CharAt(ASCII_LOW, k) = c
       ELSE 96 + CHOOSE k \in 1..Len(ASCII_HIGH) : CharAt(ASCII_HIGH, k) = c

BASE64 == "ABCDEFGHIJKLMNOPQRSTUVWXYZabcdefghijklmnopqrstuvwxyz0123456789+/"

Sextet(n) == CharAt(BASE64, n + 1)

\* Base64 of the bytes of s from position i on, three bytes to four
\* characters, the last group padded with "="
RECURSIVE Base64From(_, _)
Base64From(s, i) ==
  LET n == Len(s) - i + 1
      b1 == CharCode(CharAt(s, i))
      b2 == IF n >= 2 THEN CharCode(CharAt(s, i + 1)) ELSE 0
      b3 == IF n >= 3 THEN CharCode(CharAt(s, i + 2)) ELSE 0
  IN IF n <= 0 THEN ""
     ELSE Sextet(b1 \div 4)
            \o Sextet((b1 % 4) * 16 + b2 \div 16)
            \o (IF n >= 2 THEN Sextet((b2 % 16) * 4 + b3 \div 64) ELSE "=")
            \o (IF n >= 3 THEN Sextet(b3 % 64) ELSE "=")
            \o Base64From(s, i + 3)

toDataURL(code) == "data:text/javascript;base64," \o Base64From(code, 1)

-----------------------------------------------------------------------------
(* RegExp: a pattern built by new RegExp(text) from text the code does not *)
(* escape. Of the metacharacters, the texts of this model contain "." (any *)
(* character but a line break), "+" (one or more of the preceding atom,    *)
(* greedy) and, in an alternation, the "|" and the groups the code adds.   *)

\* The atoms of pattern text p from position i on: a character and whether
\* a "+" follows it
RECURSIVE RegExpAtoms(_, _)
RegExpAtoms(p, i) ==
  IF i > Len(p) THEN <<>>
  ELSE IF i < Len(p) /\ CharAt(p, i + 1) = "+"
       THEN <<[ch |-> CharAt(p, i), plus |-> TRUE]>> \o RegExpAtoms(p, i + 2)
       ELSE <<[ch |-> CharAt(p, i), plus |-> FALSE]>> \o RegExpAtoms(p, i + 1)

\* Whether the atom character a matches text character c
AtomMatches(a, c) == IF a = "." THEN c # "\n" ELSE a = c

\* How many characters of s from position i on match atom character a
RECURSIVE Run(_, _, _)
Run(a, s, i) ==
  IF i <= Len(s) /\ AtomMatches(a, CharAt(s, i)) THEN 1 + Run(a, s, i + 1) ELSE 0

\* The position after the match of atoms[k..] at position i of s, by the
\* backtracking order of the engine (a "+" takes the most it can, then
\* gives back); 0 when there is no match
RECURSIVE MatchAtoms(_, _, _, _), MatchPlus(_, _, _, _, _)
MatchAtoms(atoms, k, s, i) ==
  IF k > Len(atoms) THEN i
  ELSE IF atoms[k].plus THEN MatchPlus(atoms, k, s, i, Run(atoms[k].ch, s, i))
  ELSE IF i <= Len(s) /\ AtomMatches(atoms[k].ch, CharAt(s, i))
       THEN MatchAtoms(atoms, k + 1, s, i + 1)
       ELSE 0

MatchPlus(atoms, k, s, i, n) ==
  IF n < 1 THEN 0
  ELSE LET e == MatchAtoms(atoms, k + 1, s, i + n)
       IN IF e # 0 THEN e ELSE MatchPlus(atoms, k, s, i, n - 1)

\* The position after the match at position i of the alternation of the
\* patterns alts[a..], the first alternative that matches winning; 0 for none
RECURSIVE MatchAlternation(_, _, _, _)
MatchAlternation(alts, a, s, i) ==
  IF a > Len(alts) THEN 0
  ELSE LET e == MatchAtoms(RegExpAtoms(alts[a], 1), 1, s, i)
       IN IF e # 0 THEN e ELSE MatchAlternation(alts, a + 1, s, i)

\* resolved.get(id) as the replacement text: the entry, or "undefined"
MapGet(map, key) == IF key \in DOMAIN map THEN map[key] ELSE "undefined"

\* s.replace(re, m => map.get(m)) for the global alternation re of alts,
\* from position i on
RECURSIVE ReplaceByMap(_, _, _, _)
ReplaceByMap(s, alts, map, i) ==
  IF i > Len(s) THEN ""
  ELSE LET e == MatchAlternation(alts, 1, s, i)
       IN IF e # 0
          THEN MapGet(map, SubSeq(s, i, e - 1)) \o ReplaceByMap(s, alts, map, e)
          ELSE CharAt(s, i) \o ReplaceByMap(s, alts, map, i + 1)

\* s.replace(new RegExp(p, 'g'), r), from position i on; hits are the
\* positions from i on where the pattern matches
RECURSIVE ReplaceRegExp(_, _, _, _), ReplaceRegExpAt(_, _, _, _, _, _)
ReplaceRegExp(s, p, r, i) ==
  ReplaceRegExpAt(s, RegExpAtoms(p, 1), p, r, i,
                  {j \in i..Len(s) : MatchAtoms(RegExpAtoms(p, 1), 1, s, j) # 0})

ReplaceRegExpAt(s, atoms, p, r, i, hits) ==
  IF hits = {} THEN From(s, i)
  ELSE SubSeq(s, i, Least(hits) - 1) \o r
         \o ReplaceRegExp(s, p, r, MatchAtoms(atoms, 1, s, Least(hits)))

-----------------------------------------------------------------------------
(* Import Rewriter and Transformer *)

IsQuote(c) == c \in {"'", "\""}

\* \s
IsSpace(c) == c \in {" ", "\n", "\t"}

\* The lookbehinds (?<=import .* from ['"]) and (?<=export .* from ['"]) of
\* ESM_IMPORT_RE at position i, kw being the keyword with its space
FromBehind(code, kw, i) ==
  /\ i > Len(kw) + Len(" from ") + 1
  /\ IsQuote(CharAt(code, i - 1))
  /\ SubSeq(code, i - 7, i - 2) = " from "
  /\ \E j \in 1..(i - 14) :
       /\ OccursAt(code, kw, j)
       /\ ~Includes(SubSeq(code, j + 7, i - 8), "\n")

\* The lookbehinds (?<=import\s*['"]) and (?<=import\s*\(['"]) at position
\* i, open being "" or "("
BareBehind(code, open, i) ==
  LET t == i - 2 - Len(open)
  IN /\ t >= Len("import")
     /\ IsQuote(CharAt(code, i - 1))
     /\ open # "" => CharAt(code, i - 2) = open
     /\ \E w \in 0..(t - Len("import")) :
          /\ \A k \in (t - w + 1)..t : IsSpace(CharAt(code, k))
          /\ SubSeq(code, t - w - 5, t - w) = "import"

\* The length of ([^'"]+) at position i, taken greedily
RECURSIVE NonQuoteRun(_, _)
NonQuoteRun(code, i) ==
  IF i <= Len(code) /\ ~IsQuote(CharAt(code, i)) THEN 1 + NonQuoteRun(code, i + 1) ELSE 0

\* The position after the match of ESM_IMPORT_RE at position i, 0 for none
ImportMatchEnd(code, i) ==
  IF i < 2 \/ ~IsQuote(CharAt(code, i - 1)) THEN 0
  ELSE LET n == NonQuoteRun(code, i)
           e == i + n
       IN IF /\ n >= 1
             /\ e <= Len(code) /\ IsQuote(CharAt(code, e))
             /\ \/ FromBehind(code, "import ", i)
                \/ FromBehind(code, "export ", i)
                \/ BareBehind(code, "", i)
                \/ BareBehind(code, "(", i) /\ e < Len(code) /\ CharAt(code, e + 1) = ")"
          THEN e ELSE 0

\* Array.from(code.matchAll(ESM_IMPORT_RE)).map(m => m[0]), from position i on
RECURSIVE ExtractImports(_, _)
ExtractImports(code, i) ==
  IF i > Len(code) THEN <<>>
  ELSE LET e == ImportMatchEnd(code, i)
       IN IF e # 0 THEN <<SubSeq(code, i, e - 1)>> \o ExtractImports(code, e)
          ELSE ExtractImports(code, i + 1)

Range(seq) == {seq[k] : k \in 1..Len(seq)}

uniqueImports_all(imports) == imports

\* Array.from(new Set(imports)): the distinct elements, in order of first
\* occurrence
RECURSIVE uniqueImports(_)
uniqueImports(imports) ==
  IF imports = <<>> THEN <<>>
  ELSE LET front == uniqueImports(SubSeq(imports, 1, Len(imports) - 1))
           last == imports[Len(imports)]
       IN IF last \in Range(front) THEN front ELSE Append(front, last)

\* The text of every JSON file of the model
JSON_TEXT == "{\"note\": \"import './a'\"}"

\* loadURL(url): env.unreadable tells whether reading the file fails
loadURL(env, url) ==
  IF env.unreadable
  THEN Throw([name |-> "Error", code |-> "EACCES",
              message |-> "EACCES: permission denied, open '" \o fileURLToPath(url) \o "'"])
  ELSE Return(JSON_TEXT)

\* Lines 131-133 of transformModule: a JSON source becomes a module
jsonToModule(code) == Return("export default " \o code)

\* Lines 157-158: the JSON file at url is loaded, made a module and encoded.
\* The url handed to transformModule there ends in .json, so that call
\* returns on line 132.
Inline(t) ==
  IF t.kind = "throw" THEN t ELSE Return(toDataURL(jsonToModule(t.value).value))

\* Lines 155-160: one task of the Promise.all of resolveImports, as the
\* outcome of its promise, p being the promise resolve returned
TaskOutcome(env, p) ==
  IF p.kind = "rejected" THEN Throw(p.err)
  ELSE IF EndsWith(p.value, ".json") THEN Inline(loadURL(env, p.value))
  ELSE Return(p.value)

ImportTask(env, id, opts) == TaskOutcome(env, resolve(env.host, env.linked, id, opts))

\* code.replace(re, id => resolved.get(id)), re being the alternation of the
\* specifiers, each in a group, as new RegExp builds it
Substitute(code, ids, map) == ReplaceByMap(code, ids, map, 1)

\* Lines 162-164 once Promise.all has settled, outcomes being the outcomes
\* of the tasks of ids; when several tasks fail, the one that rejects
\* Promise.all is the first in time, here the first of the list
Settle(code, ids, outcomes) ==
  IF \E k \in 1..Len(ids) : outcomes[k].kind = "throw"
  THEN outcomes[CHOOSE k \in 1..Len(ids) :
                  /\ outcomes[k].kind = "throw"
                  /\ \A l \in 1..(k - 1) : outcomes[l].kind # "throw"]
  ELSE Return(Substitute(code, ids,
                [id \in Range(ids) |->
                   outcomes[CHOOSE k \in 1..Len(ids) : ids[k] = id].value]))

\* Lines 152-164, ids being the distinct specifiers
RewriteAll(env, code, opts, ids) ==
  Settle(code, ids, [k \in 1..Len(ids) |-> ImportTask(env, ids[k], opts)])

\* Lines 147-152, imports being the specifiers extracted
RewriteImports(env, code, opts, imports) ==
  IF imports = <<>> THEN Return(code)
  ELSE RewriteAll(env, code, opts, uniqueImports(imports))

\* resolveImports(code, opts) as the outcome of its promise
resolveImports(env, code, opts) ==
  RewriteImports(env, code, opts, ExtractImports(code, 1))

\* Lines 139-143 of transformModule, r being the outcome of resolveImports
RewriteMetaUrl(opts, r) ==
  IF r.kind = "throw" THEN r
  ELSE IF "url" \in DOMAIN opts
  THEN Return(ReplaceAll(r.value, "import.meta.url", "'" \o opts.url \o "'"))
  ELSE r

\* transformModule(code, opts) as the outcome of its promise
transformModule(env, code, opts) ==
  IF "url" \in DOMAIN opts /\ EndsWith(opts.url, ".json")
  THEN jsonToModule(code)
  ELSE RewriteMetaUrl(opts, resolveImports(env, code, opts))

-----------------------------------------------------------------------------
(* One call of resolveImports, its tasks interleaving. Every task calls    *)
(* resolve as the list is mapped; the continuations after "await resolve"  *)
(* run in list order; file reads complete in any order.                    *)

\* How many statements a source text of the model has at most
MaxStatements == 3

Statements ==
  {"import a from './a'\n", "import b from './a.mjs'\n", "import c from './c'\n",
   "// see x/a\n", "export default 1\n"}

RECURSIVE Concat(_)
Concat(seq) == IF seq = <<>> THEN "" ELSE Head(seq) \o Concat(Tail(seq))

Sources ==
  {Concat(q) : q \in UNION {[1..n -> Statements] : n \in 0..MaxStatements}}

\* The host of a project directory that holds the files fs
ProjectHost(fs) ==
  [n \in UNION {HostNames(i) : i \in {"./a", "./a.mjs", "./c"}} |->
     IF n \in fs THEN "ok" ELSE "ERR_MODULE_NOT_FOUND"]

Projects ==
  {{"./a.js", "./a.mjs", "./c.json"}, {"./a.mjs", "./c.json"}, {"./a.js", "./a.mjs"}, {}}

ImportOptions == [url |-> "/proj/index.mjs"]

ImportsInit ==
  /\ \E src \in Sources, fs \in Projects, bad \in BOOLEAN :
       im = [pc |-> "start", code |-> src,
             env |-> [host |-> ProjectHost(fs), linked |-> FALSE, unreadable |-> bad],
             imports |-> <<>>, ids |-> <<>>, calls |-> <<>>, task |-> <<>>, promise |-> <<>>,
             sets |-> <<>>, resolved |-> <<>>, errors |-> <<>>,
             result |-> [kind |-> "pending"]]
  /\ cs = Idle /\ rs = Idle /\ ev = Idle

\* The tasks of the distinct specifiers ids start: each calls resolve
StartTasks(st, ids) ==
  [st EXCEPT !.pc = "awaiting", !.ids = ids, !.calls = ids,
             !.task = [k \in 1..Len(ids) |-> "awaitResolve"],
             !.promise = [k \in 1..Len(ids) |->
                            resolve(st.env.host, st.env.linked, ids[k], ImportOptions)]]

Started(st, imports) ==
  IF imports = <<>> THEN [st EXCEPT !.pc = "done", !.result = Return(st.code)]
  ELSE StartTasks([st EXCEPT !.imports = imports], uniqueImports(imports))

\* Lines 147-154: the specifiers are extracted; with none the text is
\* returned; else every distinct one gets a task, which calls resolve
ImStart ==
  /\ im.pc = "start"
  /\ im' = Started(im, ExtractImports(im.code, 1))
  /\ UNCHANGED <<cs, rs, ev>>

\* resolved.set(id, url)
MapSet(st, k, url) ==
  [st EXCEPT !.task[k] = "done",
             !.sets = Append(st.sets, st.ids[k]),
             !.resolved = [id \in DOMAIN st.resolved \cup {st.ids[k]} |->
                             IF id = st.ids[k] THEN url ELSE st.resolved[id]]]

TaskFails(st, k, e) ==
  [st EXCEPT !.task[k] = "failed", !.errors = Append(st.errors, e)]

\* Lines 155-156 and 160: task k resumes after "await resolve"
ImAfterResolve(k) ==
  /\ im.pc \in {"awaiting", "failed"}
  /\ im.task[k] = "awaitResolve"
  /\ \A j \in 1..(k - 1) : im.task[j] # "awaitResolve"
  /\ im' = IF im.promise[k].kind = "rejected" THEN TaskFails(im, k, im.promise[k].err)
           ELSE IF EndsWith(im.promise[k].value, ".json")
           THEN [im EXCEPT !.task[k] = "loading"]
           ELSE MapSet(im, k, im.promise[k].value)
  /\ UNCHANGED <<cs, rs, ev>>

\* transformModule(text, {url}) was called for task k with outcome m; the
\* resolve calls it made are those of its resolveImports
Transformed(st, k, url, text, m) ==
  IF m.kind = "throw" THEN TaskFails(st, k, m.err)
  ELSE [st EXCEPT !.task[k] = "transformed",
                  !.promise[k] = [kind |-> "fulfilled", value |-> m.value],
                  !.calls = st.calls \o
                              IF EndsWith(url, ".json") THEN <<>>
                              ELSE uniqueImports(ExtractImports(text, 1))]

\* The read of task k completed with outcome t
Loaded(st, k, url, t) ==
  IF t.kind = "throw" THEN TaskFails(st, k, t.err)
  ELSE Transformed(st, k, url, t.value, transformModule(st.env, t.value, [url |-> url]))

\* Lines 157-158: the read of task k completes and transformModule is called
ImLoaded(k) ==
  /\ im.pc \in {"awaiting", "failed"}
  /\ im.task[k] = "loading"
  /\ im' = Loaded(im, k, im.promise[k].value, loadURL(im.env, im.promise[k].value))
  /\ UNCHANGED <<cs, rs, ev>>

\* Lines 158 and 160: task k resumes after "await transformModule"
ImInlined(k) ==
  /\ im.pc \in {"awaiting", "failed"}
  /\ im.task[k] = "transformed"
  /\ im' = MapSet(im, k, toDataURL(im.promise[k].value))
  /\ UNCHANGED <<cs, rs, ev>>

AllSettled_some(st) == \E k \in 1..Len(st.ids) : st.task[k] = "done"

\* Promise.all is fulfilled
AllSettled(st) == \A k \in 1..Len(st.ids) : st.task[k] = "done"

\* Lines 163-164: every task is done and the substitution pass runs
ImSubstitute ==
  /\ im.pc = "awaiting"
  /\ AllSettled(im)
  /\ im' = [im EXCEPT !.pc = "done",
                      !.result = Return(Substitute(im.code, im.ids, im.resolved))]
  /\ UNCHANGED <<cs, rs, ev>>

\* Promise.all is rejected by the first task that failed, and the call
\* fails with that error; the other tasks run on
ImReject ==
  /\ im.pc = "awaiting"
  /\ im.errors # <<>>
  /\ im' = [im EXCEPT !.pc = "failed", !.result = Throw(im.errors[1])]
  /\ UNCHANGED <<cs, rs, ev>>

ImportsNext ==
  \/ ImStart
  \/ \E k \in 1..MaxStatements : k <= Len(im.ids) /\ ImAfterResolve(k)
  \/ \E k \in 1..MaxStatements : k <= Len(im.ids) /\ ImLoaded(k)
  \/ \E k \in 1..MaxStatements : k <= Len(im.ids) /\ ImInlined(k)
  \/ ImSubstitute
  \/ ImReject

SpecImports == ImportsInit /\ [][ImportsNext]_vars

-----------------------------------------------------------------------------
(* Evaluator: one call of evalModule. The host's import(dataURL) runs the   *)
(* transformed source; a source with a throw statement at its top level     *)
(* rejects the import with the thrown value.                                *)

\* How many frames of a failure's stack trace name the evaluated unit
MaxFrames == 2

EvalHeads == {"", "x=>1;", "1??2;", "let a=1;", "import.meta.url;"}

EvalTails == {"throw Error(1)", "throw 0", "export default 1"}

EvalSources == {h \o t : h \in EvalHeads, t \in EvalTails}

EvalOptions == {<<>>, [url |-> "file:///proj/m.mjs"]}

\* The host the evaluated sources see: no file of theirs can be resolved
EvalEnv == [host |-> ProjectHost({}), linked |-> FALSE, unreadable |-> FALSE]

EvalInit ==
  /\ \E src \in EvalSources, o \in EvalOptions :
       ev = [pc |-> "start", code |-> src, opts |-> o, transformed |-> "",
             dataURL |-> "", thrown |-> <<>>, result |-> [kind |-> "pending"]]
  /\ cs = Idle /\ rs = Idle /\ im = Idle

\* Whether running the source raises
Throws(code) == Includes(code, "throw ")

\* The k frames of a stack trace that name the unit loaded from url
RECURSIVE Frames(_, _)
Frames(url, k) == IF k = 0 THEN "" ELSE "\n    at " \o url \o ":1:7" \o Frames(url, k - 1)

\* What running the source loaded from url raises: an Error with k frames
\* in the unit, or the primitive the source throws, which has no stack
Thrown(code, url, k) ==
  IF Includes(code, "throw Error(")
  THEN [name |-> "Error", message |-> "1", stack |-> "Error: 1" \o Frames(url, k)]
  ELSE [primitive |-> "0"]

\* Reading err.stack of a value with no stack gives undefined, and calling
\* replace on it raises
StackTypeError ==
  [name |-> "TypeError", message |-> "Cannot read properties of undefined (reading 'replace')"]

\* opts.url || '_mlly_eval_.mjs'
LogicalLocation(opts) ==
  IF "url" \in DOMAIN opts /\ opts.url # "" THEN opts.url ELSE "_mlly_eval_.mjs"

\* The catch handler of evalModule on the rejection err
RewriteStack(err, dataURL, opts) ==
  IF "stack" \in DOMAIN err
  THEN Throw([err EXCEPT !.stack = ReplaceRegExp(err.stack, dataURL, LogicalLocation(opts), 1)])
  ELSE Throw(StackTypeError)

\* const transformed = await transformModule(code, opts)
EvTransformed(r) ==
  IF r.kind = "throw"
  THEN ev' = [ev EXCEPT !.pc = "failed", !.result = r]
  ELSE ev' = [ev EXCEPT !.pc = "transformed", !.transformed = r.value]

EvTransform ==
  /\ ev.pc = "start"
  /\ EvTransformed(transformModule(EvalEnv, ev.code, ev.opts))
  /\ UNCHANGED <<cs, rs, im>>

\* const dataURL = toDataURL(transformed, opts), and import(dataURL) starts
EvImport ==
  /\ ev.pc = "transformed"
  /\ ev' = [ev EXCEPT !.pc = "importing", !.dataURL = toDataURL(ev.transformed)]
  /\ UNCHANGED <<cs, rs, im>>

\* The import fulfils with the module namespace
EvFulfil ==
  /\ ev.pc = "importing" /\ ~Throws(ev.transformed)
  /\ ev' = [ev EXCEPT !.pc = "done", !.result = Return("namespace")]
  /\ UNCHANGED <<cs, rs, im>>

\* The import rejects with what the source throws
EvReject ==
  /\ ev.pc = "importing" /\ Throws(ev.transformed)
  /\ \E k \in 1..MaxFrames :
       ev' = [ev EXCEPT !.pc = "rejected", !.thrown = Thrown(ev.transformed, ev.dataURL, k)]
  /\ UNCHANGED <<cs, rs, im>>

\* The catch handler rewrites the stack and rethrows
EvCatch ==
  /\ ev.pc = "rejected"
  /\ ev' = [ev EXCEPT !.pc = "failed",
                      !.result = RewriteStack(ev.thrown, ev.dataURL, ev.opts)]
  /\ UNCHANGED <<cs, rs, im>>

EvalNext == EvTransform \/ EvImport \/ EvFulfil \/ EvReject \/ EvCatch

SpecEval == EvalInit /\ [][EvalNext]_vars

-----------------------------------------------------------------------------
(* Properties of the Resolver *)

\* The extension list and the base location in effect for the call
RsExts == IF "extensions" \in DOMAIN rs.opts THEN rs.opts.extensions ELSE DEFAULT_EXTENSIONS

RsUrl == IF "url" \in DOMAIN rs.opts THEN normalizeid(rs.opts.url) ELSE DEFAULT_URL

\* The candidate order the specification prescribes: the specifier, then
\* specifier+ext in list order, then specifier+"/index"+ext in list order
Candidates(id, exts) ==
  <<id>> \o [k \in 1..Len(exts) |-> id \o exts[k]]
         \o [k \in 1..Len(exts) |-> id \o "/index" \o exts[k]]

\* A specifier that begins with one of the protocols
ProtocolQualified(id) == \E p \in RESOLVE_PROTOCOLS : StartsWith(id, p)

HostAnswer(name) ==
  IF name \in DOMAIN rs.host THEN rs.host[name] ELSE "ERR_MODULE_NOT_FOUND"

SoftMiss(name) == HostAnswer(name) \in NOT_FOUND_ERRORS

HardError(name) == HostAnswer(name) # "ok" /\ ~SoftMiss(name)

\* The canonical form of the location the host gives for name
Canonical(name) ==
  pathToFileURL(realpathSync(rs.linked, fileURLToPath(HostLocation(name, RsUrl))))

SyncDone == rs.pc = "done" /\ rs.op = "resolveSync"

\* The host was queried in the prescribed order, up to and including the
\* first candidate that did not soft-miss, and a resolved candidate is
\* returned in canonical form
QueriedInOrder ==
  LET c == Candidates(rs.id, RsExts)
      q == rs.queried
  IN /\ Len(q) >= 1 /\ Len(q) <= Len(c) /\ q = SubSeq(c, 1, Len(q))
     /\ \A i \in 1..(Len(q) - 1) : SoftMiss(q[i])
     /\ Len(q) < Len(c) => ~SoftMiss(q[Len(q)])
     /\ HostAnswer(q[Len(q)]) = "ok" => rs.result = Return(Canonical(q[Len(q)]))

\* C1: for every specifier that is neither protocol-qualified nor a builtin
\* name, resolveSync queries the host on the specifier, then specifier+ext,
\* then specifier+"/index"+ext, in list order, stops at the first candidate
\* the host resolves and returns its canonical form.
C1_CandidateOrder ==
  (SyncDone /\ ~ProtocolQualified(rs.id) /\ rs.id \notin BUILTIN_MODULES)
    => QueriedInOrder

\* The same order, for the specifiers that pass the two guards _resolve
\* itself applies (no protocol token anywhere in the specifier, not a builtin)
OrderBehindGuards ==
  (SyncDone /\ ~HasProtocolToken(rs.id, RESOLVE_PROTOCOLS) /\ rs.id \notin BUILTIN_MODULES)
    => QueriedInOrder

\* The concrete case of the specification: only ./x/index.js and ./x.json
\* exist, default extensions, and ./x resolves to ./x.json
OrderExample ==
  /\ SyncDone /\ rs.id = "./x" /\ "extensions" \notin DOMAIN rs.opts
  /\ {n \in DOMAIN rs.host : rs.host[n] = "ok"} = {"./x/index.js", "./x.json"}
  /\ \A n \in DOMAIN rs.host : ~HardError(n)
  /\ rs.result = Return(Canonical("./x.json"))
  /\ rs.queried = <<"./x", "./x.mjs", "./x.cjs", "./x.js", "./x.json">>

\* C2: when the host soft-misses on the specifier and on every fallback
\* candidate, resolveSync fails with code ERR_MODULE_NOT_FOUND and a message
\* naming the original specifier and the base location; it returns nothing,
\* and it raises ModuleNotFound only after every candidate was tried.
C2_NotFoundAfterAllCandidates ==
  SyncDone =>
    LET c == Candidates(rs.id, RsExts)
        q == rs.queried
        notFound == /\ rs.result.kind = "throw"
                    /\ rs.result.err.code = "ERR_MODULE_NOT_FOUND"
    IN /\ (q # <<>> /\ \A i \in 1..Len(c) : SoftMiss(c[i])) =>
            /\ notFound
            /\ Includes(rs.result.err.message, " " \o rs.id \o " ")
            /\ EndsWith(rs.result.err.message, " " \o RsUrl)
       /\ notFound => (q = c /\ \A i \in 1..Len(c) : SoftMiss(c[i]))

C2_Witness ==
  /\ SyncDone /\ rs.result.kind = "throw"
  /\ rs.result.err.code = "ERR_MODULE_NOT_FOUND"
  /\ Len(rs.queried) = 1 + 2 * Len(DEFAULT_EXTENSIONS)
  /\ \E i, j \in 1..Len(rs.queried) :
       /\ HostAnswer(rs.queried[i]) = "ERR_UNSUPPORTED_DIR_IMPORT"
       /\ HostAnswer(rs.queried[j]) = "MODULE_NOT_FOUND"

\* C3: a host failure outside the not-found class on any candidate is raised
\* as it is, at once: that candidate is the last one queried, whatever a
\* later candidate would have given.
C3_HardErrorPropagates ==
  SyncDone =>
    \A i \in 1..Len(rs.queried) :
      HardError(rs.queried[i]) =>
        /\ i = Len(rs.queried)
        /\ rs.result = Throw(HostError(HostAnswer(rs.queried[i]), rs.queried[i]))

C3_Witness ==
  /\ SyncDone /\ rs.result.kind = "throw" /\ rs.result.err.code = "EACCES"
  /\ Len(rs.queried) > 1
  /\ \E k \in 1..Len(Candidates(rs.id, RsExts)) :
       k > Len(rs.queried) /\ HostAnswer(Candidates(rs.id, RsExts)[k]) = "ok"

\* C4: resolve and resolvePath never raise synchronously: where the
\* synchronous form raises e the promise is rejected with a new error of
\* code e.code whose message wraps e; where it returns v the promise is
\* fulfilled with v.
C4_AsyncNeverRaises ==
  (rs.pc = "done" /\ rs.op \in {"resolve", "resolvePath"}) =>
    LET s == IF rs.op = "resolve"
             THEN resolveSync(rs.host, rs.linked, rs.id, rs.opts)
             ELSE resolvePathSync(rs.host, rs.linked, rs.id, rs.opts)
        a == rs.result
    IN /\ a.kind \in {"fulfilled", "rejected"}
       /\ s.kind = "throw" =>
            /\ a.kind = "rejected"
            /\ a.err.code = s.err.code
            /\ a.err # s.err
            /\ Includes(a.err.message, s.err.message)
       /\ s.kind = "return" => a = [kind |-> "fulfilled", value |-> s.value]

C4_Witness ==
  /\ rs.pc = "done" /\ rs.op = "resolvePath"
  /\ rs.result.kind = "rejected" /\ rs.result.err.code = "EACCES"

\* C7: every value resolveSync returns for a specifier that is neither
\* protocol-qualified nor a builtin name is a forward-slash file URL that
\* went through real-path canonicalization; only specifiers that begin with
\* a protocol, and builtin names, are returned without it.
C7_ReturnedLocationsCanonical ==
  (SyncDone /\ rs.result.kind = "return"
     /\ ~ProtocolQualified(rs.id) /\ rs.id \notin BUILTIN_MODULES) =>
    /\ StartsWith(rs.result.value, "file://")
    /\ ~Includes(rs.result.value, "\\")
    /\ \E i \in 1..Len(rs.queried) : rs.result.value = Canonical(rs.queried[i])

-----------------------------------------------------------------------------
(* Properties of the Import Rewriter *)

\* The specifiers the call extracted from its text
ImImports == im.imports

Count(seq, x) == Cardinality({k \in 1..Len(seq) : seq[k] = x})

\* The text with every verbatim occurrence of a specifier replaced by the
\* target of that specifier, the longest specifier that occurs at a position
\* being the one that occurs there
RECURSIVE LiteralRewrite(_, _, _, _)
LiteralRewrite(code, ids, map, i) ==
  LET here == {id \in Range(ids) : OccursAt(code, id, i)}
      id == CHOOSE x \in here : \A y \in here : Len(y) <= Len(x)
  IN IF i > Len(code) THEN ""
     ELSE IF here = {} THEN CharAt(code, i) \o LiteralRewrite(code, ids, map, i + 1)
     ELSE map[id] \o LiteralRewrite(code, ids, map, i + Len(id))

\* C5: the substitution pass matches specifiers as exact literal substrings
\* and replaces each verbatim occurrence with the target of that same
\* specifier: every import ends up pointing at its own resolved target, and
\* no text that is not a verbatim specifier occurrence is altered, also when
\* one specifier is a prefix of another or contains a ".".
C5_ExactLiteralSubstitution ==
  (im.pc = "done" /\ im.ids # <<>>) =>
    /\ ExtractImports(im.result.value, 1) =
         [k \in 1..Len(ImImports) |-> im.resolved[ImImports[k]]]
    /\ im.result.value = LiteralRewrite(im.code, im.ids, im.resolved, 1)

\* C9: one call of resolveImports calls the resolver exactly once per
\* distinct extracted specifier, however often it occurs and also when its
\* target is a JSON file that is inlined; with no specifier it calls it
\* never and returns the text unchanged.
C9_ResolveOncePerSpecifier ==
  im.pc \in {"awaiting", "done", "failed"} =>
    /\ \A k \in 1..Len(im.calls) : Count(im.calls, im.calls[k]) = 1
    /\ Range(im.calls) = Range(ImImports)
    /\ im.pc # "awaiting" => ImImports = ExtractImports(im.code, 1)
    /\ ImImports = <<>> => (im.pc = "done" /\ im.result = Return(im.code))

C9_Witness ==
  /\ im.pc = "done" /\ im.result.kind = "return"
  /\ Count(ImImports, "./c") = 2
  /\ "./a" \in Range(ImImports)
  /\ StartsWith(im.resolved["./c"], "data:")
  /\ Len(im.calls) = 2

\* C10: the tasks complete in any order; the substitution pass starts only
\* once all of them are done, its output is the same for every order, and
\* when a task fails the call fails and returns no text.
C10_SubstitutionAfterAllTasks ==
  /\ (im.pc = "done" /\ im.ids # <<>>) =>
       /\ \A k \in 1..Len(im.ids) : im.task[k] = "done"
       /\ DOMAIN im.resolved = Range(im.ids)
       /\ im.result = resolveImports(im.env, im.code, ImportOptions)
  /\ (im.pc \in {"awaiting", "done", "failed"} /\ im.errors # <<>>) =>
       /\ im.pc # "done"
       /\ im.result.kind # "return"
       /\ im.pc = "failed" => im.result = Throw(im.errors[1])

C10_Witness ==
  /\ im.pc = "done" /\ Len(im.ids) = 3
  /\ im.sets # im.ids
  /\ im.result.kind = "return"

C10_FailureWitness ==
  /\ im.pc = "failed" /\ \E k \in 1..Len(im.ids) : im.task[k] = "done"

-----------------------------------------------------------------------------
(* Properties of the Location Codec *)

\* C8 as stated: both conversions render a builtin module name with the
\* builtin protocol, normalizeid(name) and fileURLToPath(name) each giving
\* "node:" + name.
C8_Original ==
  (cs.pc = "codec" /\ Len(cs.calls) = 1 /\ cs.id \in BUILTIN_MODULES) =>
    cs.cur = "node:" \o cs.id

\* C8, amended: normalizeid renders a builtin module name that carries no
\* protocol itself as "node:" + name (one that does carry a protocol is
\* returned as it is); fileURLToPath returns a builtin module name unchanged,
\* without the builtin protocol.
C8_BuiltinRendering ==
  (cs.pc = "codec" /\ Len(cs.calls) = 1 /\ cs.id \in BUILTIN_MODULES) =>
    /\ (cs.calls[1] = "normalizeid" /\ ~ProtocolQualified(cs.id)) =>
         cs.cur = "node:" \o cs.id
    /\ (cs.calls[1] = "normalizeid" /\ ProtocolQualified(cs.id)) => cs.cur = cs.id
    /\ cs.calls[1] = "fileURLToPath" => cs.cur = cs.id

C8_Witness ==
  /\ cs.pc = "codec" /\ cs.id = "fs/promises"
  /\ cs.calls = <<"fileURLToPath">> /\ cs.cur = "fs/promises"

-----------------------------------------------------------------------------
(* Properties of the Evaluator *)

\* Whether the base64 text of the evaluated unit has a "+" in it
PlusInEncoding == Includes(ev.dataURL, "+")

\* C6: whenever the evaluated source fails with an error that has a stack
\* trace, evalModule rejects with the same failure, its stack trace naming
\* the logical location (opts.url, or "_mlly_eval_.mjs" when there is none)
\* and holding no occurrence of the data URL of the evaluated unit, whatever
\* base64 text that URL has.
C6_TraceNamesLogicalLocation ==
  (ev.pc = "failed" /\ "stack" \in DOMAIN ev.thrown) =>
    /\ ev.result.kind = "throw"
    /\ "stack" \in DOMAIN ev.result.err
    /\ [ev.result.err EXCEPT !.stack = ""] = [ev.thrown EXCEPT !.stack = ""]
    /\ Includes(ev.result.err.stack, LogicalLocation(ev.opts))
    /\ ~Includes(ev.result.err.stack, ev.dataURL)

\* What the code does keep: a failure that is an Error, from a unit whose
\* base64 text has no "+", is rethrown with every frame renamed
TraceRewrittenWithoutPlus ==
  (ev.pc = "failed" /\ "stack" \in DOMAIN ev.thrown /\ ~PlusInEncoding) =>
    /\ ev.result = Throw([ev.thrown EXCEPT !.stack =
                            ReplaceAll(ev.thrown.stack, ev.dataURL, LogicalLocation(ev.opts))])
    /\ ~Includes(ev.result.err.stack, ev.dataURL)

\* An Error from a unit whose base64 text has a "+" keeps the data URL
TraceKeptExample ==
  /\ ev.pc = "failed" /\ "stack" \in DOMAIN ev.thrown /\ PlusInEncoding
  /\ ev.result.err.stack = ev.thrown.stack

====
